---- MODULE Spec2Model ----
(***************************************************************************)
(* checklfs (src/src/main.rs): three validators walk the tree of one       *)
(* commit -- sidecar pairing (test_meta), case collisions (test_case) and  *)
(* size/attribute (test_lfs) -- each on its own thread; main joins them,   *)
(* logs a summary and derives the exit code.                               *)
(*                                                                         *)
(* A name is a sequence of tokens (letters, ".", "~", the word "meta");    *)
(* a path is a sequence of names (the components of a PathBuf).  The tree  *)
(* is a function from the paths of its entries to what git2 reports for    *)
(* the entry: the object's kind, whether to_object succeeds, the blob's    *)
(* size and the "merge" attribute resolved for the path.                   *)
(***************************************************************************)
EXTENDS Integers, Sequences, FiniteSets, TLC

\* ---------------------------------------------------------------- bounds
\* Largest number of entries of a tree walked by one validator alone.
MaxEntries == 3
\* Largest number of entries of a tree walked by the three threads together.
MaxEntriesMain == 2

\* ---------------------------------------------------------------- names
\* A name git2 cannot decode: entry.name() is None for it.
BadName == <<"0xFF">>

HasName(n) == \A i \in 1..Len(n) : n[i] # "0xFF"

\* str::starts_with(".")
StartsWithDot(n) == Len(n) >= 1 /\ n[1] = "."

\* str::ends_with("~")
EndsWithTilde(n) == Len(n) >= 1 /\ n[Len(n)] = "~"

\* char-wise lowercase of one token
LowerTok(c) ==
    CASE c = "A" -> "a"
      [] c = "B" -> "b"
      [] c = "Assets" -> "assets"
      [] OTHER -> c

\* Path::join of a prefix and one name
Join(prefix, name) == Append(prefix, name)

RECURSIVE PathStr(_)
\* Path::to_str: the components joined by "/"
PathStr(p) ==
    IF Len(p) = 0 THEN <<>>
    ELSE IF Len(p) = 1 THEN p[1]
    ELSE PathStr(SubSeq(p, 1, Len(p) - 1)) \o <<"/">> \o p[Len(p)]

\* to_lowercase left out: the path is compared as written.
ToLowercaseAsWritten(s) == s

\* str::to_lowercase
ToLowercase(s) == [i \in 1..Len(s) |-> LowerTok(s[i])]

\* Position of the last "." of a name, 0 when there is none.
LastDot(n) ==
    LET ds == {i \in 1..Len(n) : n[i] = "."}
    IN IF ds = {} THEN 0 ELSE CHOOSE i \in ds : \A j \in ds : j <= i

\* Path::extension of the last component: what follows the last ".", when
\* that "." is not the first character; NoExt otherwise.
NoExt == <<"<none>">>
Extension(n) ==
    IF LastDot(n) <= 1 THEN NoExt ELSE SubSeq(n, LastDot(n) + 1, Len(n))

\* PathBuf::set_extension(""): the last component cut back to its stem.
StripExtension(p) ==
    LET n == p[Len(p)]
    IN IF LastDot(n) <= 1 THEN p
       ELSE [p EXCEPT ![Len(p)] = SubSeq(n, 1, LastDot(n) - 1)]

\* The backup-suffix rule left out.
IgnoredHiddenOnly(n) == StartsWithDot(n)

\* Unity3d ignores these names.
Ignored(n) == StartsWithDot(n) \/ EndsWithTilde(n)

\* The sidecar recorded under its own path: set_extension left out.
BaseOfUnstripped(p) ==
    [base |-> p, is_meta |-> Extension(p[Len(p)]) = <<"meta">>]

\* (base_path, is_meta) of a blob at path p.
BaseOf(p) ==
    IF Extension(p[Len(p)]) = <<"meta">>
    THEN [base |-> StripExtension(p), is_meta |-> TRUE]
    ELSE [base |-> p, is_meta |-> FALSE]

\* The filter without its exclusion of the subtree root.
OutOfScopeRootIncluded(path) == ~(Len(path) >= 1 /\ path[1] = <<"Assets">>)

\* The filter of test_meta's report loop: keys that are skipped.
OutOfScope(path) ==
    \/ ~(Len(path) >= 1 /\ path[1] = <<"Assets">>)
    \/ path = <<<<"Assets">>>>

\* The size from which a blob marked for LFS is reported.
LfsThreshold == 150

\* ---------------------------------------------------------------- trees
Parent(p) == SubSeq(p, 1, Len(p) - 1)

RECURSIVE PathSets(_, _)
\* The prefix-closed sets of at most n paths over the names nms.
PathSets(nms, n) ==
    IF n = 0 THEN {{}}
    ELSE LET prev == PathSets(nms, n - 1)
         IN prev \cup UNION {
              {S \cup {Append(q, nm)} : q \in S \cup {<<>>}, nm \in nms} : S \in prev}

Internal(P) == {p \in P : \E q \in P : Len(q) = Len(p) + 1 /\ Parent(q) = p}

\* What git2 reports for a leaf: only blobs carry a size, and only for
\* blobs is the "merge" attribute looked up.
LeafEntries(kinds, sizes, attrs) ==
    {[kind |-> k, size |-> 0, attr |-> "none"] : k \in kinds \ {"blob"}}
    \cup {[kind |-> "blob", size |-> sz, attr |-> a] : sz \in sizes, a \in attrs}

\* The tree over the path set P whose leaves are lf and whose entry bad fails
\* to materialize: every entry that has children is a tree object.
TreeOf(P, lf, bad) ==
    [p \in P |->
        LET le == IF p \in DOMAIN lf THEN lf[p]
                  ELSE [kind |-> "tree", size |-> 0, attr |-> "none"]
        IN [kind |-> le.kind, ok |-> p # bad, size |-> le.size, attr |-> le.attr]]

Children(t, d) == {p \in DOMAIN t : Len(p) = Len(d) + 1 /\ Parent(p) = d}

\* ---------------------------------------------------------------- results
Running == [tag |-> "Running"]
Err == [tag |-> "Err"]
Ok(n) == [tag |-> "Ok", val |-> n]
NoneYet == [tag |-> "None"]

VARIABLES
    \* the tree of the commit, and the order in which Tree::iter yields entries
    tree, order,
    \* test_meta / iter_tree_meta
    m_pc, m_stack, m_seen, names, m_log, m_result,
    \* test_case / iter_tree_case
    c_pc, c_stack, c_seen, name_set, c_log, c_result,
    \* test_lfs / iter_tree_lfs
    l_pc, l_stack, l_seen, l_log, l_result,
    \* main
    pc, meta_error_count, case_error_count, lfs_error_count, summary, exit_code

metaVars == <<m_pc, m_stack, m_seen, names, m_log, m_result>>
caseVars == <<c_pc, c_stack, c_seen, name_set, c_log, c_result>>
lfsVars == <<l_pc, l_stack, l_seen, l_log, l_result>>
mainVars == <<pc, meta_error_count, case_error_count, lfs_error_count, summary, exit_code>>
input == <<tree, order>>
vars == <<input, metaVars, caseVars, lfsVars, mainVars>>

\* The process is alive until main returns or calls exit.
Alive == exit_code.tag = "None"

\* ------------------------------------------------- test_meta (one thread)
MetaFile == [file |-> TRUE, meta |-> FALSE]
MetaMeta == [file |-> FALSE, meta |-> TRUE]

\* names.get_mut(key) / names.insert(key, ..) of the Tree arm.
RecordFile(nm, key) ==
    IF key \in DOMAIN nm THEN [nm EXCEPT ![key].file = TRUE]
    ELSE [k \in DOMAIN nm \cup {key} |-> IF k = key THEN MetaFile ELSE nm[k]]

\* names.get_mut(base_path) / names.insert(base_path, ..) of the Blob arm.
RecordBlob(nm, p) ==
    LET b == BaseOf(p)
    IN IF b.base \in DOMAIN nm
       THEN IF b.is_meta THEN [nm EXCEPT ![b.base].meta = TRUE]
            ELSE [nm EXCEPT ![b.base].file = TRUE]
       ELSE [k \in DOMAIN nm \cup {b.base} |->
               IF k = b.base THEN (IF b.is_meta THEN MetaMeta ELSE MetaFile)
               ELSE nm[k]]

\* A failure of to_object that goes unnoticed.
MaterializesAlways(e) == TRUE

\* entry.to_object(repo) is Ok.
Materializes(e) == tree[e].ok

\* count = iter_tree_*(..)?  in place of count +=
AddCountOverwrites(own, nested) == nested

\* count += iter_tree_*(..)?  on the Ok of a nested call
AddCount(own, nested) == own + nested

\* size <= 150 in place of size < 150
ShouldBeInLfsAboveOnly(attr, size) == attr = "lfs" /\ ~(size <= LfsThreshold)

\* The blob arm of iter_tree_lfs reaches its error!() and count += 1.
ShouldBeInLfs(attr, size) == attr = "lfs" /\ ~(size < LfsThreshold)

\* The entries the innermost iter_tree_* call has still to iterate over.
Pending(stack, seen) == Children(tree, stack[Len(stack)].prefix) \ seen

\* The place of the entry e in the iteration of its directory.
Rank(e) == order[e]

\* The entry the innermost loop yields next is e.
IsNextEntry(e, stack, seen) ==
    /\ e \in Pending(stack, seen)
    /\ \A f \in Pending(stack, seen) : Rank(e) <= Rank(f)

\* test_meta up to its call of iter_tree_meta on the root tree.
TestMetaStart ==
    /\ Alive
    /\ m_pc = "start"
    /\ m_pc' = "walk"
    /\ m_stack' = <<[prefix |-> <<>>]>>
    /\ names' = <<>>
    /\ UNCHANGED <<input, m_seen, m_log, m_result, caseVars, lfsVars, mainVars>>

\* One iteration of iter_tree_meta's loop, for the entry e.
MetaVisit(e) ==
    /\ Alive
    /\ m_pc = "walk"
    /\ IsNextEntry(e, m_stack, m_seen)
    /\ LET prefix == m_stack[Len(m_stack)].prefix
           raw == e[Len(e)]
           name == Join(prefix, raw)
       IN /\ m_seen' = m_seen \cup {e}
          /\ IF ~HasName(raw) \/ Ignored(raw)
             THEN UNCHANGED <<m_pc, m_stack, names, m_result>>
             ELSE IF ~Materializes(e)
             THEN /\ m_pc' = "done"
                  /\ m_result' = Err
                  /\ m_stack' = <<>>
                  /\ names' = <<>>
             ELSE IF tree[e].kind = "tree"
             THEN /\ m_stack' = Append(m_stack, [prefix |-> name])
                  /\ UNCHANGED <<m_pc, names, m_result>>
             ELSE IF tree[e].kind = "blob"
             THEN /\ names' = RecordBlob(names, name)
                  /\ UNCHANGED <<m_pc, m_stack, m_result>>
             ELSE UNCHANGED <<m_pc, m_stack, names, m_result>>
    /\ UNCHANGED <<input, m_log, caseVars, lfsVars, mainVars>>

\* iter_tree_meta returns Ok(()): a nested call's directory is recorded as
\* content by its caller; the outermost call hands over to the report loop.
MetaReturn ==
    /\ Alive
    /\ m_pc = "walk"
    /\ Pending(m_stack, m_seen) = {}
    /\ IF Len(m_stack) > 1
       THEN /\ names' = RecordFile(names, m_stack[Len(m_stack)].prefix)
            /\ m_stack' = SubSeq(m_stack, 1, Len(m_stack) - 1)
            /\ UNCHANGED m_pc
       ELSE /\ m_stack' = <<>>
            /\ m_pc' = "report"
            /\ UNCHANGED names
    /\ UNCHANGED <<input, m_seen, m_log, m_result, caseVars, lfsVars, mainVars>>

\* The keys test_meta's loop reports.
Flagged(nm) ==
    {path \in DOMAIN nm : ~OutOfScope(path) /\ ~(nm[path].file /\ nm[path].meta)}

\* test_meta's loop over name_set, which consumes the map, and its Ok(count).
TestMetaReport ==
    /\ Alive
    /\ m_pc = "report"
    /\ m_log' = Flagged(names)
    /\ m_result' = Ok(Cardinality(Flagged(names)))
    /\ names' = <<>>
    /\ m_pc' = "done"
    /\ UNCHANGED <<input, m_stack, m_seen, caseVars, lfsVars, mainVars>>

MetaNext == TestMetaStart \/ (\E e \in DOMAIN tree : MetaVisit(e)) \/ MetaReturn \/ TestMetaReport

\* ---------------------------------------------------------------- initial state
\* Nothing has run yet; mp, cp, lp and p are where the three validators and
\* main stand ("unborn": the thread is not spawned; "off": main is not run).
Siblings(P, e) == {f \in P : Len(f) = Len(e) /\ Parent(f) = Parent(e)}

RECURSIVE PlaceIn(_, _)
\* The place of e among the entries S when they are taken in the order the
\* tree stores them (here: the order in which CHOOSE takes them).
PlaceIn(S, e) ==
    LET first == CHOOSE x \in S : TRUE
    IN IF first = e THEN 1 ELSE 1 + PlaceIn(S \ {first}, e)

\* The stored order: the place of every entry of P in its directory.
StoredOrder(P) == [e \in P |-> PlaceIn(Siblings(P, e), e)]

\* Every order of every directory: each entry's place among its siblings.
Orders(P) ==
    {o \in [P -> 1..Cardinality(P)] :
        \A e \in P : /\ o[e] <= Cardinality(Siblings(P, e))
                      /\ \A f \in Siblings(P, e) : o[e] = o[f] => e = f}

\* The tree is any tree of at most n entries over the names nms: a leaf is of
\* any of the kinds, and at most one entry fails to materialize (fails
\* switches the failure on; bad = <<>>, the root, which is no entry, stands
\* for no failure).  Its entries are iterated in the stored order, or in any
\* order when anyOrder is set.
InitWith(nms, n, kinds, sizes, attrs, fails, anyOrder, mp, cp, lp, p) ==
    /\ \E P \in PathSets(nms, n) :
         \E o \in (IF anyOrder THEN Orders(P) ELSE {StoredOrder(P)}) :
           \E lf \in [P \ Internal(P) -> LeafEntries(kinds, sizes, attrs)] :
             \E bad \in (IF fails THEN P ELSE {}) \cup {<<>>} :
               /\ tree = TreeOf(P, lf, bad)
               /\ order = o
    /\ m_pc = mp /\ m_stack = <<>> /\ m_seen = {} /\ names = <<>>
    /\ m_log = {} /\ m_result = Running
    /\ c_pc = cp /\ c_stack = <<>> /\ c_seen = {} /\ name_set = {}
    /\ c_log = {} /\ c_result = Running
    /\ l_pc = lp /\ l_stack = <<>> /\ l_seen = {} /\ l_log = {}
    /\ l_result = Running
    /\ pc = p /\ meta_error_count = NoneYet /\ case_error_count = NoneYet
    /\ lfs_error_count = NoneYet /\ summary = NoneYet /\ exit_code = NoneYet

\* ------------------------------------------- test_meta called on its own
MetaNames == {<<"Assets">>, <<"a">>, <<"a", ".", "meta">>, <<"a", "~">>,
              <<"a", "~", ".", "meta">>, <<".", "a">>, BadName}

InitMeta ==
    InitWith(MetaNames, MaxEntries, {"tree", "blob", "other"}, {0}, {"none"}, TRUE, FALSE,
             "start", "unborn", "unborn", "off")

SpecMeta == InitMeta /\ [][MetaNext]_vars

\* ------------------------------------------------- test_case (one thread)
\* test_case up to its call of iter_tree_case on the root tree.
TestCaseStart ==
    /\ Alive
    /\ c_pc = "start"
    /\ c_pc' = "walk"
    /\ c_stack' = <<[prefix |-> <<>>, count |-> 0]>>
    /\ name_set' = {}
    /\ UNCHANGED <<input, c_seen, c_log, c_result, metaVars, lfsVars, mainVars>>

\* One iteration of iter_tree_case's loop, for the entry e: up to the
\* recursive call when e is a tree.
CaseVisit(e) ==
    /\ Alive
    /\ c_pc = "walk"
    /\ IsNextEntry(e, c_stack, c_seen)
    /\ LET top == Len(c_stack)
           prefix == c_stack[top].prefix
           raw == e[Len(e)]
           name == Join(prefix, raw)
           path_str == PathStr(name)
           lower_path_str == ToLowercase(path_str)
           dup == lower_path_str \in name_set
           counted == [c_stack EXCEPT ![top].count = @ + (IF dup THEN 1 ELSE 0)]
       IN /\ c_seen' = c_seen \cup {e}
          /\ IF ~HasName(raw)
             THEN UNCHANGED <<c_pc, c_stack, name_set, c_log, c_result>>
             ELSE IF ~Materializes(e)
             THEN /\ c_pc' = "done"
                  /\ c_result' = Err
                  /\ c_stack' = <<>>
                  /\ name_set' = {}
                  /\ UNCHANGED c_log
             ELSE /\ name_set' = name_set \cup {lower_path_str}
                  /\ c_log' = IF dup THEN c_log \cup {name} ELSE c_log
                  /\ c_stack' = IF tree[e].kind = "tree"
                                THEN Append(counted, [prefix |-> name, count |-> 0])
                                ELSE counted
                  /\ UNCHANGED <<c_pc, c_result>>
    /\ UNCHANGED <<input, metaVars, lfsVars, mainVars>>

\* iter_tree_case returns Ok(count): a nested call's count is added to its
\* caller's; the outermost call's count is test_case's result.
CaseReturn ==
    /\ Alive
    /\ c_pc = "walk"
    /\ Pending(c_stack, c_seen) = {}
    /\ LET top == Len(c_stack)
       IN IF top > 1
          THEN /\ c_stack' = [SubSeq(c_stack, 1, top - 1) EXCEPT
                                ![top - 1].count = AddCount(@, c_stack[top].count)]
               /\ UNCHANGED <<c_pc, c_result, name_set>>
          ELSE /\ c_stack' = <<>>
               /\ c_result' = Ok(c_stack[top].count)
               /\ name_set' = {}
               /\ c_pc' = "done"
    /\ UNCHANGED <<input, c_seen, c_log, metaVars, lfsVars, mainVars>>

RECURSIVE IterTreeCase(_, _, _)
\* iter_tree_case as one recursive function, iterating in the order the tree
\* stores its entries (here: the order in which CHOOSE takes them).  todo is
\* what the loop has still to iterate over; st is the shared set of names,
\* this call's count so far, and whether a `?` has returned an error.
IterTreeCase(prefix, todo, st) ==
    IF st.err \/ todo = {} THEN st
    ELSE LET e == CHOOSE x \in todo : TRUE
             raw == e[Len(e)]
             name == Join(prefix, raw)
             lower_path_str == ToLowercase(PathStr(name))
             dup == lower_path_str \in st.names
             st1 == [names |-> st.names \cup {lower_path_str},
                     count |-> st.count + (IF dup THEN 1 ELSE 0),
                     err |-> FALSE]
             sub == IterTreeCase(name, Children(tree, e),
                                 [names |-> st1.names, count |-> 0, err |-> FALSE])
         IN IF ~HasName(raw) THEN IterTreeCase(prefix, todo \ {e}, st)
            ELSE IF ~Materializes(e) THEN [st EXCEPT !.err = TRUE]
            ELSE IF tree[e].kind = "tree"
            THEN IterTreeCase(prefix, todo \ {e},
                              [names |-> sub.names,
                               count |-> AddCount(st1.count, sub.count),
                               err |-> sub.err])
            ELSE IterTreeCase(prefix, todo \ {e}, st1)

\* test_case's result when the tree is iterated in its stored order.
TestCaseStored ==
    LET r == IterTreeCase(<<>>, Children(tree, <<>>),
                          [names |-> {}, count |-> 0, err |-> FALSE])
    IN IF r.err THEN Err ELSE Ok(r.count)

CaseNext == TestCaseStart \/ (\E e \in DOMAIN tree : CaseVisit(e)) \/ CaseReturn

\* -------------------------------------------------- test_lfs (one thread)
\* test_lfs up to its call of iter_tree_lfs on the root tree.
TestLfsStart ==
    /\ Alive
    /\ l_pc = "start"
    /\ l_pc' = "walk"
    /\ l_stack' = <<[prefix |-> <<>>, count |-> 0]>>
    /\ UNCHANGED <<input, l_seen, l_log, l_result, metaVars, caseVars, mainVars>>

\* One iteration of iter_tree_lfs's loop, for the entry e: up to the
\* recursive call when e is a tree.  The attribute "error" is get_attr
\* returning an error.
LfsVisit(e) ==
    /\ Alive
    /\ l_pc = "walk"
    /\ IsNextEntry(e, l_stack, l_seen)
    /\ LET top == Len(l_stack)
           prefix == l_stack[top].prefix
           raw == e[Len(e)]
           full_path == Join(prefix, raw)
           size == tree[e].size
           attr == tree[e].attr
       IN /\ l_seen' = l_seen \cup {e}
          /\ IF ~HasName(raw)
             THEN UNCHANGED <<l_pc, l_stack, l_log, l_result>>
             ELSE IF ~Materializes(e) \/ (tree[e].kind = "blob" /\ attr = "error")
             THEN /\ l_pc' = "done"
                  /\ l_result' = Err
                  /\ l_stack' = <<>>
                  /\ UNCHANGED l_log
             ELSE IF tree[e].kind = "tree"
             THEN /\ l_stack' = Append(l_stack, [prefix |-> full_path, count |-> 0])
                  /\ UNCHANGED <<l_pc, l_log, l_result>>
             ELSE IF tree[e].kind = "blob" /\ ShouldBeInLfs(attr, size)
             THEN /\ l_log' = l_log \cup {full_path}
                  /\ l_stack' = [l_stack EXCEPT ![top].count = @ + 1]
                  /\ UNCHANGED <<l_pc, l_result>>
             ELSE UNCHANGED <<l_pc, l_stack, l_log, l_result>>
    /\ UNCHANGED <<input, metaVars, caseVars, mainVars>>

\* iter_tree_lfs returns Ok(count).
LfsReturn ==
    /\ Alive
    /\ l_pc = "walk"
    /\ Pending(l_stack, l_seen) = {}
    /\ LET top == Len(l_stack)
       IN IF top > 1
          THEN /\ l_stack' = [SubSeq(l_stack, 1, top - 1) EXCEPT
                                ![top - 1].count = AddCount(@, l_stack[top].count)]
               /\ UNCHANGED <<l_pc, l_result>>
          ELSE /\ l_stack' = <<>>
               /\ l_result' = Ok(l_stack[top].count)
               /\ l_pc' = "done"
    /\ UNCHANGED <<input, l_seen, l_log, metaVars, caseVars, mainVars>>

LfsNext == TestLfsStart \/ (\E e \in DOMAIN tree : LfsVisit(e)) \/ LfsReturn

\* ------------------------------------------- test_case called on its own
CaseNames == {<<"a", "b">>, <<"A", "b">>, <<"a", "B">>, <<"c">>, BadName}

InitCase ==
    InitWith(CaseNames, MaxEntries, {"tree", "blob", "other"}, {0}, {"none"}, TRUE, TRUE,
             "unborn", "start", "unborn", "off")

SpecCase == InitCase /\ [][CaseNext]_vars

\* -------------------------------------------- test_lfs called on its own
LfsNames == {<<"a">>, <<"b">>, <<"c">>, BadName}

InitLfs ==
    InitWith(LfsNames, MaxEntries, {"tree", "blob", "other"},
             {LfsThreshold - 1, LfsThreshold}, {"none", "lfs", "union", "error"}, TRUE, FALSE,
             "unborn", "unborn", "start", "off")

SpecLfs == InitLfs /\ [][LfsNext]_vars

\* ------------------------------------------------------------------ main
Exited(code) == [tag |-> "Exit", code |-> code]

\* The sum without the size/attribute count.
ErrorCountWithoutLfs(m, c, l) == m + c

\* let error_count = meta_error_count + case_error_count + lfs_error_count;
ErrorCount(m, c, l) == m + c + l

\* std::thread::spawn(move || test_meta(..))
SpawnMeta ==
    /\ pc = "spawn_meta"
    /\ m_pc' = "start"
    /\ pc' = "spawn_case"
    /\ UNCHANGED <<input, m_stack, m_seen, names, m_log, m_result, caseVars, lfsVars,
                   meta_error_count, case_error_count, lfs_error_count, summary, exit_code>>

\* std::thread::spawn(move || test_case(..))
SpawnCase ==
    /\ pc = "spawn_case"
    /\ c_pc' = "start"
    /\ pc' = "spawn_lfs"
    /\ UNCHANGED <<input, c_stack, c_seen, name_set, c_log, c_result, metaVars, lfsVars,
                   meta_error_count, case_error_count, lfs_error_count, summary, exit_code>>

\* std::thread::spawn(move || test_lfs(..))
SpawnLfs ==
    /\ pc = "spawn_lfs"
    /\ l_pc' = "start"
    /\ pc' = "join_meta"
    /\ UNCHANGED <<input, l_stack, l_seen, l_log, l_result, metaVars, caseVars,
                   meta_error_count, case_error_count, lfs_error_count, summary, exit_code>>

\* let meta_error_count = t_meta.join().unwrap()?;  an Err makes main return
\* it, and the process ends with the failure status.
JoinMeta ==
    /\ pc = "join_meta"
    /\ m_pc = "done"
    /\ IF m_result.tag = "Ok"
       THEN /\ meta_error_count' = Ok(m_result.val)
            /\ pc' = "join_case"
            /\ UNCHANGED exit_code
       ELSE /\ pc' = "failed"
            /\ exit_code' = Exited(1)
            /\ UNCHANGED meta_error_count
    /\ UNCHANGED <<input, metaVars, caseVars, lfsVars, case_error_count, lfs_error_count, summary>>

\* let case_error_count = t_case.join().unwrap()?;
JoinCase ==
    /\ pc = "join_case"
    /\ c_pc = "done"
    /\ IF c_result.tag = "Ok"
       THEN /\ case_error_count' = Ok(c_result.val)
            /\ pc' = "join_lfs"
            /\ UNCHANGED exit_code
       ELSE /\ pc' = "failed"
            /\ exit_code' = Exited(1)
            /\ UNCHANGED case_error_count
    /\ UNCHANGED <<input, metaVars, caseVars, lfsVars, meta_error_count, lfs_error_count, summary>>

\* t_lfs polled instead of joined: its count if it has finished, 0 otherwise.
JoinLfsPolled ==
    /\ pc = "join_lfs"
    /\ lfs_error_count' = IF l_result.tag = "Ok" THEN Ok(l_result.val) ELSE Ok(0)
    /\ pc' = "summary"
    /\ UNCHANGED <<input, metaVars, caseVars, lfsVars, meta_error_count, case_error_count,
                   summary, exit_code>>

\* let lfs_error_count = t_lfs.join().unwrap()?;
JoinLfs ==
    /\ pc = "join_lfs"
    /\ l_pc = "done"
    /\ IF l_result.tag = "Ok"
       THEN /\ lfs_error_count' = Ok(l_result.val)
            /\ pc' = "summary"
            /\ UNCHANGED exit_code
       ELSE /\ pc' = "failed"
            /\ exit_code' = Exited(1)
            /\ UNCHANGED lfs_error_count
    /\ UNCHANGED <<input, metaVars, caseVars, lfsVars, meta_error_count, case_error_count, summary>>

\* info!("elapsed=.., meta-errors={}, lfs-errors={}, case-errors={}", ..)
Summary ==
    /\ pc = "summary"
    /\ summary' = [tag |-> "Logged", meta |-> meta_error_count.val,
                   lfs |-> lfs_error_count.val, case |-> case_error_count.val]
    /\ pc' = "decide"
    /\ UNCHANGED <<input, metaVars, caseVars, lfsVars, meta_error_count, case_error_count,
                   lfs_error_count, exit_code>>

\* error_count > 0 => std::process::exit(1); Ok(()) otherwise.
Decide ==
    /\ pc = "decide"
    /\ LET error_count == ErrorCount(meta_error_count.val, case_error_count.val,
                                     lfs_error_count.val)
       IN exit_code' = IF error_count > 0 THEN Exited(1) ELSE Exited(0)
    /\ pc' = "exited"
    /\ UNCHANGED <<input, metaVars, caseVars, lfsVars, meta_error_count, case_error_count,
                   lfs_error_count, summary>>

MainNext ==
    \/ SpawnMeta \/ SpawnCase \/ SpawnLfs
    \/ JoinMeta \/ JoinCase \/ JoinLfs
    \/ Summary \/ Decide

MainNames == {<<"Assets">>, <<"a">>, <<"A">>, <<"a", ".", "meta">>}

Init ==
    InitWith(MainNames, MaxEntriesMain, {"tree", "blob"},
             {LfsThreshold}, {"none", "lfs", "error"}, TRUE, FALSE,
             "unborn", "unborn", "unborn", "spawn_meta")

Next == MainNext \/ MetaNext \/ CaseNext \/ LfsNext

Spec == Init /\ [][Next]_vars

\* =================================================================== claims
\* Vocabulary of the claims, stated on the tree alone.

\* Every segment of the path has a resolvable name: the entry has a logical path.
Resolvable(p) == \A i \in 1..Len(p) : \A j \in 1..Len(p[i]) : p[i][j] # "0xFF"

\* The entries that have a logical path.
NamedEntries == {p \in DOMAIN tree : Resolvable(p)}

\* The case-folded logical path, component by component.
FoldKey(p) == [i \in 1..Len(p) |-> [j \in 1..Len(p[i]) |-> LowerTok(p[i][j])]]

IsPrefix(p, q) == Len(p) <= Len(q) /\ SubSeq(q, 1, Len(p)) = p

\* The number of extra occurrences beyond the first of each case-folded path.
ExtraOccurrences ==
    Cardinality(NamedEntries) - Cardinality({FoldKey(p) : p \in NamedEntries})

\* ------------------------------------------------------------------- C1
\* C1: whenever test_case returns a count, the count is the number of
\* entries that have a logical path minus the number of distinct case-folded
\* logical paths among them: 0 when no two entries fold to the same path, 2
\* when three do.
C1_CaseCountIsExtraOccurrences ==
    c_result.tag = "Ok" => c_result.val = ExtraOccurrences

\* Three entries of one directory fold to the same key and the count is 2.
C1_Witness ==
    /\ c_result = Ok(2)
    /\ \E p, q, r \in NamedEntries :
         /\ p # q /\ q # r /\ p # r
         /\ FoldKey(p) = FoldKey(q) /\ FoldKey(q) = FoldKey(r)

\* ------------------------------------------------------------------- C7
\* C7: whatever the order in which the entries of each directory are
\* visited, test_case ends with the result it has when every directory is
\* iterated in the tree's stored order.
C7_CountIsOrderIndependent ==
    c_pc = "done" => c_result = TestCaseStored

\* A collision is counted in a directory whose entries are visited in
\* another order than the stored one.
C7_Witness ==
    /\ c_pc = "done" /\ c_result.tag = "Ok" /\ c_result.val >= 1
    /\ order # StoredOrder(DOMAIN tree)
    /\ Cardinality(Children(tree, <<>>)) >= 2

\* ------------------------------------------------------------------- C4
\* The blobs with a logical path whose resolved "merge" attribute is "lfs"
\* and whose length is at least 150 bytes.
OversizedLfsBlobs ==
    {p \in NamedEntries :
        tree[p].kind = "blob" /\ tree[p].attr = "lfs" /\ tree[p].size >= 150}

\* C4: whenever test_lfs returns a count, it has reported exactly the blobs
\* marked "lfs" of at least 150 bytes, one violation each; a marked blob below
\* 150 bytes and a blob with no or another attribute contribute nothing.
C4_LfsCountIsOversizedMarkedBlobs ==
    l_result.tag = "Ok" =>
        /\ l_result.val = Cardinality(OversizedLfsBlobs)
        /\ l_log = OversizedLfsBlobs

\* One marked blob of 150 bytes is counted next to a marked blob of 149
\* bytes and an unmarked blob of 150 bytes.
C4_Witness ==
    /\ l_result = Ok(1)
    /\ \E p, q \in NamedEntries :
         /\ tree[p].kind = "blob" /\ tree[p].attr = "lfs" /\ tree[p].size = 149
         /\ tree[q].kind = "blob" /\ tree[q].attr # "lfs" /\ tree[q].size = 150

\* --------------------------------------------------------- sidecar pairing
IsIgnoredName(n) == n[1] = "." \/ n[Len(n)] = "~"

\* No segment of the path is unresolvable or ignored.
Visible(p) == Resolvable(p) /\ \A i \in 1..Len(p) : ~IsIgnoredName(p[i])

EndsWithDotMeta(n) == Len(n) >= 3 /\ n[Len(n) - 1] = "." /\ n[Len(n)] = "meta"

\* The path of the sidecar of the base path b: the same path plus ".meta".
SidecarPath(b) == [b EXCEPT ![Len(b)] = @ \o <<".", "meta">>]

\* The base path of the sidecar at p.
CutMeta(p) == [p EXCEPT ![Len(p)] = SubSeq(@, 1, Len(@) - 2)]

\* A content entry at b: a directory, or a blob that is not itself a sidecar.
HasContent(b) ==
    /\ b \in DOMAIN tree
    /\ \/ tree[b].kind = "tree"
       \/ tree[b].kind = "blob" /\ ~EndsWithDotMeta(b[Len(b)])

HasSidecar(b) == SidecarPath(b) \in DOMAIN tree /\ tree[SidecarPath(b)].kind = "blob"

\* Under the asset subtree, the subtree root excluded.
StrictlyUnderAssets(b) == Len(b) >= 2 /\ b[1] = <<"Assets">>

\* The base paths that have a content entry or a sidecar.
BasePaths ==
    DOMAIN tree \cup {CutMeta(p) : p \in {q \in DOMAIN tree : EndsWithDotMeta(q[Len(q)])}}

\* ------------------------------------------------------------------- C2
\* C2 as claimed: when test_meta returns a count, every base path under
\* Assets with a content entry and its sidecar is not reported, and every
\* base path under Assets with only one of the two is reported, once.
C2_Original ==
    m_result.tag = "Ok" =>
        /\ m_result.val = Cardinality(m_log)
        /\ \A b \in BasePaths : (StrictlyUnderAssets(b) /\ Resolvable(b)) =>
              /\ (HasContent(b) /\ HasSidecar(b)) => b \notin m_log
              /\ (HasContent(b) # HasSidecar(b)) => b \in m_log

\* C2 as amended: the same, for the base paths no segment of which is an
\* ignored name.
C2_PairedIffNotReported ==
    m_result.tag = "Ok" =>
        /\ m_result.val = Cardinality(m_log)
        /\ \A b \in BasePaths : (StrictlyUnderAssets(b) /\ Visible(b)) =>
              /\ (HasContent(b) /\ HasSidecar(b)) => b \notin m_log
              /\ (HasContent(b) # HasSidecar(b)) => b \in m_log

\* Assets/a with its sidecar Assets/a.meta: nothing is reported.
C2_Witness ==
    /\ m_result = Ok(0)
    /\ HasContent(<<<<"Assets">>, <<"a">>>>)
    /\ HasSidecar(<<<<"Assets">>, <<"a">>>>)

\* ------------------------------------------------------------------- C3
\* C3 as claimed: at every point of the sidecar-pairing pass, no key of the
\* map and no reported path is the path of an entry with an ignored name or
\* of anything beneath it.
C3_Original ==
    \A e \in DOMAIN tree : IsIgnoredName(e[Len(e)]) =>
        \A k \in DOMAIN names \cup m_log : ~IsPrefix(e, k)

\* C3 as amended: nothing strictly beneath an entry with an ignored name is
\* ever a key or reported; the entry's own path is a key only through a
\* sibling blob "<name>.meta" that is not ignored itself (so the name ends
\* with "~" and does not start with "."), and then carries the sidecar flag
\* alone; under Assets that orphan sidecar is reported when the walk reaches
\* it.
C3_IgnoredOnlyThroughSiblingSidecar ==
    \A e \in DOMAIN tree : IsIgnoredName(e[Len(e)]) =>
        /\ \A k \in DOMAIN names \cup m_log : IsPrefix(e, k) =>
              /\ k = e
              /\ e[Len(e)][1] # "."
              /\ HasSidecar(e)
              /\ k \in DOMAIN names => names[k] = [file |-> FALSE, meta |-> TRUE]
        /\ (/\ m_result.tag = "Ok"
            /\ StrictlyUnderAssets(e)
            /\ HasSidecar(e)
            /\ Visible(SidecarPath(e))) => e \in m_log

\* Assets/a~ is in the tree and its path is reported, through Assets/a~.meta.
C3_Witness ==
    /\ m_result = Ok(1)
    /\ <<<<"Assets">>, <<"a", "~">>>> \in DOMAIN tree
    /\ m_log = {<<<<"Assets">>, <<"a", "~">>>>}

\* ------------------------------------------------------------------- C8
\* The keys of the map nm strictly under Assets whose flags are not both set.
UnpairedUnderAssets(nm) ==
    {k \in DOMAIN nm : StrictlyUnderAssets(k) /\ ~(nm[k].file /\ nm[k].meta)}

\* The directories the walk has descended into and recorded.
RecordedDirs == {d \in m_seen : Visible(d) /\ tree[d].kind = "tree"}

\* C8: the report loop returns the number of keys strictly under Assets
\* whose flags are not both set, and reports exactly those keys: no key
\* outside Assets, and not Assets itself; a recorded directory under Assets
\* with no sidecar blob beside it is among them.
C8_ReportCountsUnpairedKeysUnderAssets ==
    [][(m_pc = "report" /\ m_pc' = "done") =>
          /\ m_result' = Ok(Cardinality(UnpairedUnderAssets(names)))
          /\ m_log' = UnpairedUnderAssets(names)
          /\ \A k \in DOMAIN names :
                (~StrictlyUnderAssets(k)) => k \notin m_log'
          /\ \A d \in RecordedDirs :
                (StrictlyUnderAssets(d) /\ ~HasSidecar(d)) => d \in m_log']_vars

\* The directory Assets/a has no sidecar and is the one violation; Assets
\* itself and the unpaired a outside Assets are not counted.
C8_Witness ==
    /\ m_result = Ok(1)
    /\ m_log = {<<<<"Assets">>, <<"a">>>>}
    /\ <<<<"Assets">>, <<"a">>>> \in DOMAIN tree
    /\ tree[<<<<"Assets">>, <<"a">>>>].kind = "tree"
    /\ <<<<"a">>>> \in DOMAIN tree

\* The count test_meta returns, from the tree alone.
MetaExpected ==
    LET content == {p \in DOMAIN tree : Visible(p) /\ HasContent(p)}
        sidecars == {CutMeta(p) : p \in {q \in DOMAIN tree :
                      Visible(q) /\ tree[q].kind = "blob" /\ EndsWithDotMeta(q[Len(q)])}}
    IN Cardinality({b \in content \cup sidecars :
                      StrictlyUnderAssets(b) /\ ~(b \in content /\ b \in sidecars)})

\* test_meta's count is a function of the tree.
MetaCountIsExpected == m_result.tag = "Ok" => m_result.val = MetaExpected

\* ------------------------------------- any one validator called on its own
AloneNames == {<<"a">>, <<"A">>, <<".", "a">>, BadName}

InitAlone ==
    \/ InitWith(AloneNames, MaxEntries, {"tree", "blob"}, {LfsThreshold}, {"none", "lfs"},
                TRUE, FALSE, "start", "unborn", "unborn", "off")
    \/ InitWith(AloneNames, MaxEntries, {"tree", "blob"}, {LfsThreshold}, {"none", "lfs"},
                TRUE, FALSE, "unborn", "start", "unborn", "off")
    \/ InitWith(AloneNames, MaxEntries, {"tree", "blob"}, {LfsThreshold}, {"none", "lfs"},
                TRUE, FALSE, "unborn", "unborn", "start", "off")

SpecAlone == InitAlone /\ [][MetaNext \/ CaseNext \/ LfsNext]_vars

\* ------------------------------------------------------------------- C9
\* What one step of a validator does to the entry it iterates over: seen and
\* seen2 are the entries iterated over before and after the step, skips
\* tells the names the validator passes over before materializing anything.
FailsOrSkips(seen, seen2, skips(_), pc2, result, result2, stack, stack2) ==
    /\ \A e \in seen2 \ seen :
          /\ (~skips(e[Len(e)]) /\ ~tree[e].ok) => (pc2 = "done" /\ result2 = Err)
          /\ (\E i \in 1..Len(e[Len(e)]) : e[Len(e)][i] = "0xFF") =>
                (pc2 = "walk" /\ result2 = Running /\ stack2 = stack)
    /\ result = Err => (seen2 = seen /\ result2 = Err /\ pc2 = "done")

SkipsUnnamed(n) == \E i \in 1..Len(n) : n[i] = "0xFF"

SkipsUnnamedOrIgnored(n) == SkipsUnnamed(n) \/ IsIgnoredName(n)

\* C9: in each validator, the step in which materializing an entry fails
\* ends the validator with the error and no count; once it has failed no
\* further entry is visited; the step over an entry without a resolvable
\* name changes nothing but the position of the loop, and the walk goes on.
C9_FailurePropagatesUnnamedIsSkipped ==
    [][/\ FailsOrSkips(m_seen, m_seen', SkipsUnnamedOrIgnored, m_pc', m_result, m_result',
                       <<m_stack, names>>, <<m_stack', names'>>)
       /\ FailsOrSkips(c_seen, c_seen', SkipsUnnamed, c_pc', c_result, c_result',
                       <<c_stack, name_set, c_log>>, <<c_stack', name_set', c_log'>>)
       /\ FailsOrSkips(l_seen, l_seen', SkipsUnnamed, l_pc', l_result, l_result',
                       <<l_stack, l_log>>, <<l_stack', l_log'>>)]_vars

\* test_lfs has reported a blob and passed over an entry without a name,
\* then failed on a later entry: it returns the error, not the count.
C9_Witness ==
    /\ l_result = Err
    /\ l_log # {}
    /\ \E e \in l_seen : SkipsUnnamed(e[Len(e)])
    /\ \E e \in l_seen : ~tree[e].ok

\* ------------------------------------------------------------------- C5
AllComplete == m_result.tag = "Ok" /\ c_result.tag = "Ok" /\ l_result.tag = "Ok"

\* C5: once the process has ended with all three validators complete, the
\* exit code is 0 if the three counts they returned sum to zero and 1
\* otherwise.
C5_ExitCodeFromSum ==
    (~Alive /\ AllComplete) =>
        exit_code = Exited(IF m_result.val + c_result.val + l_result.val = 0 THEN 0 ELSE 1)

\* A single violation, found by the size/attribute validator alone, makes
\* the exit code 1.
C5_Witness ==
    /\ exit_code = Exited(1)
    /\ m_result = Ok(0) /\ c_result = Ok(0) /\ l_result = Ok(1)

\* ------------------------------------------------------------------- C6
\* The validators that cannot complete on this tree.
MetaFails == \E e \in DOMAIN tree : Visible(e) /\ ~tree[e].ok
CaseFails == \E e \in NamedEntries : ~tree[e].ok
LfsFails ==
    \E e \in NamedEntries : ~tree[e].ok \/ (tree[e].kind = "blob" /\ tree[e].attr = "error")

\* C6 as claimed: when a validator fails, then by the time the process has
\* ended every validator that does not fail on this tree has completed, and
\* its count has been collected and reported in the summary line.
C6_Claim ==
    (~Alive /\ (MetaFails \/ CaseFails \/ LfsFails)) =>
        /\ ~MetaFails => (/\ m_result.tag = "Ok" /\ meta_error_count = m_result
                          /\ summary.tag = "Logged")
        /\ ~CaseFails => (/\ c_result.tag = "Ok" /\ case_error_count = c_result
                          /\ summary.tag = "Logged")
        /\ ~LfsFails => (/\ l_result.tag = "Ok" /\ lfs_error_count = l_result
                         /\ summary.tag = "Logged")

\* ------------------------------------------------------------------ C10
\* C10: the summary line and the exit decision come only after all three
\* validators have finished; a validator that has not finished can always
\* take its next step, whatever the others do; and the count collected for
\* each validator is the count it returns on this tree when run alone.
C10_JoinIsTheOnlySynchronization ==
    /\ (pc \in {"summary", "decide", "exited"} \/ summary.tag = "Logged") =>
          /\ m_pc = "done" /\ c_pc = "done" /\ l_pc = "done"
          /\ meta_error_count = Ok(MetaExpected)
          /\ case_error_count = Ok(ExtraOccurrences)
          /\ lfs_error_count = Ok(Cardinality(OversizedLfsBlobs))
    /\ (Alive /\ m_pc \in {"start", "walk", "report"}) => ENABLED MetaNext
    /\ (Alive /\ c_pc \in {"start", "walk"}) => ENABLED CaseNext
    /\ (Alive /\ l_pc \in {"start", "walk"}) => ENABLED LfsNext

\* The summary is logged with the one violation that the sidecar-pairing and
\* the size/attribute validator each found in the same blob.
C10_Witness ==
    /\ summary = [tag |-> "Logged", meta |-> 1, lfs |-> 1, case |-> 0]
    /\ pc = "exited"

====
